---- MODULE Spec2Model ----
(***************************************************************************)
(* The "Merge Daily Notes" Obsidian plugin (src/main.ts) as a state        *)
(* machine: the settings object and its persisted copy, the vault (files   *)
(* and folders), the date picker modal, and every mergeDailyNotes call in  *)
(* flight, one action per handler or per resumption after an await.        *)
(*                                                                         *)
(* Text is a sequence of tokens, each token the literal substring it       *)
(* names: "---", Fence (three backticks), "\n", " ", "#", "/", a date, or  *)
(* a run of ordinary characters holding no dash, backtick or newline.  The *)
(* concatenation of the tokens is the text.  Dashes and backticks occur    *)
(* only inside "---" and Fence tokens, so every match of the two regular   *)
(* expressions of mergeDailyNotes starts and ends on a token boundary.     *)
(*                                                                         *)
(* A date string "YYYY-MM-DD" is the triple <<year, month, day>> (years of *)
(* four digits); the empty string of an empty date input is <<>>.          *)
(***************************************************************************)
EXTENDS Integers, Sequences, FiniteSets, TLC

VARIABLES
    settings,    \* this.settings of the plugin
    saved,       \* the plugin's persisted data (data.json), NoData before any save
    saveQueue,   \* saveData calls the host has not completed yet, oldest first
    dailyNotes,  \* the Daily Notes core plugin: enabled, options.folder, options.format
    files,       \* the vault's files: path -> content
    folders,     \* the vault's folders
    modal,       \* the DatePickerModal, open or closed
    merges,      \* the mergeDailyNotes calls made so far, in call order
    notices      \* the notices shown so far

vars == <<settings, saved, saveQueue, dailyNotes, files, folders, modal, merges, notices>>

(***************************************************************************)
(* Bounds of the model.                                                    *)
(***************************************************************************)
NumDays == 3          \* calendar days the user can pick from, from FirstDate on
MaxMerges == 2        \* mergeDailyNotes calls in one behaviour
MaxContentLen == 5    \* tokens of a daily note, where all contents are enumerated
MaxTextLen == 3       \* characters typed into the Merge Path field
MaxPendingSaves == 1  \* saveData calls of the settings tab the host has yet to complete

FirstDate == <<2024, 2, 28>>
Today == <<2024, 3, 2>>

(***************************************************************************)
(* Sequences.                                                              *)
(***************************************************************************)
Last(s) == s[Len(s)]

IsPrefix(p, s) == Len(p) <= Len(s) /\ SubSeq(s, 1, Len(p)) = p

RECURSIVE Flatten(_)
Flatten(ss) == IF ss = <<>> THEN <<>> ELSE Head(ss) \o Flatten(Tail(ss))

SeqsUpTo(S, n) == UNION {[1..k -> S] : k \in 0..n}

(***************************************************************************)
(* Dates: moment's calendar arithmetic and comparison, the formatting of a *)
(* date, and the string comparison of the click handler.                   *)
(***************************************************************************)
NoDate == <<>>

IsLeapYear(y) == (y % 4 = 0 /\ y % 100 # 0) \/ y % 400 = 0

DaysInMonth(y, m) ==
    IF m = 2 THEN (IF IsLeapYear(y) THEN 29 ELSE 28)
    ELSE IF m \in {4, 6, 9, 11} THEN 30 ELSE 31

\* A wrong calendar: February always has 28 days.
NextDayNoLeap(d) ==
    IF d[3] < (IF d[2] = 2 THEN 28 ELSE DaysInMonth(d[1], d[2])) THEN <<d[1], d[2], d[3] + 1>>
    ELSE IF d[2] < 12 THEN <<d[1], d[2] + 1, 1>>
    ELSE <<d[1] + 1, 1, 1>>

\* currentDate.add(1, "days")
NextDay(d) ==
    IF d[3] < DaysInMonth(d[1], d[2]) THEN <<d[1], d[2], d[3] + 1>>
    ELSE IF d[2] < 12 THEN <<d[1], d[2] + 1, 1>>
    ELSE <<d[1] + 1, 1, 1>>

PrevDay(d) ==
    IF d[3] > 1 THEN <<d[1], d[2], d[3] - 1>>
    ELSE IF d[2] > 1 THEN <<d[1], d[2] - 1, DaysInMonth(d[1], d[2] - 1)>>
    ELSE <<d[1] - 1, 12, 31>>

\* moment().subtract(n, "days")
RECURSIVE SubtractDays(_, _)
SubtractDays(d, n) == IF n = 0 THEN d ELSE SubtractDays(PrevDay(d), n - 1)

\* The instant a moment holds, in whole days since 1970-01-01.
DayNumber(d) ==
    LET y   == IF d[2] <= 2 THEN d[1] - 1 ELSE d[1]
        era == y \div 400
        yoe == y - era * 400
        mp  == (d[2] + 9) % 12
        doy == (153 * mp + 2) \div 5 + d[3] - 1
        doe == yoe * 365 + yoe \div 4 - yoe \div 100 + doy
    IN  era * 146097 + doe - 719468

\* The calendar date of a day number.
DateOfDay(n) ==
    LET z   == n + 719468
        era == z \div 146097
        doe == z - era * 146097
        yoe == (doe - doe \div 1460 + doe \div 36524 - doe \div 146096) \div 365
        doy == doe - (365 * yoe + yoe \div 4 - yoe \div 100)
        mp  == (5 * doy + 2) \div 153
        m   == IF mp < 10 THEN mp + 3 ELSE mp - 9
    IN  <<yoe + era * 400 + (IF m <= 2 THEN 1 ELSE 0), m, doy - (153 * mp + 2) \div 5 + 1>>

\* currentDate.isSameOrBefore(end)
IsSameOrBefore(a, b) == DayNumber(a) <= DayNumber(b)

Pad2(n) == IF n < 10 THEN "0" \o ToString(n) ELSE ToString(n)

\* The daily-note formats the model configures.
DateFormats == {"YYYY-MM-DD", "DD.MM.YYYY"}

\* date.format(fmt)
FormatDate(d, fmt) ==
    IF fmt = "YYYY-MM-DD"
    THEN ToString(d[1]) \o "-" \o Pad2(d[2]) \o "-" \o Pad2(d[3])
    ELSE Pad2(d[3]) \o "." \o Pad2(d[2]) \o "." \o ToString(d[1])

\* A comparison that also refuses equal dates.
StrGreaterOrEqual(a, b) ==
    \/ a[1] > b[1]
    \/ a[1] = b[1] /\ a[2] > b[2]
    \/ a[1] = b[1] /\ a[2] = b[2] /\ a[3] >= b[3]

\* startDate > endDate on two "YYYY-MM-DD" strings: the order of the first
\* character that differs, which for zero-padded fields of fixed width is the
\* order of the first field that differs.
StrGreater(a, b) ==
    \/ a[1] > b[1]
    \/ a[1] = b[1] /\ a[2] > b[2]
    \/ a[1] = b[1] /\ a[2] = b[2] /\ a[3] > b[3]

\* The dates the user picks from: NumDays calendar days from FirstDate on.
Dates == {DateOfDay(DayNumber(FirstDate) + i) : i \in 0..(NumDays - 1)}
DateInputs == Dates \cup {NoDate}

(***************************************************************************)
(* Text: String.prototype.trim and the two replacements of mergeDailyNotes.*)
(***************************************************************************)
RECURSIVE TrimStart(_)
TrimStart(s) == IF s # <<>> /\ Head(s) = " " THEN TrimStart(Tail(s)) ELSE s

RECURSIVE TrimEnd(_)
TrimEnd(s) == IF s # <<>> /\ Last(s) = " " THEN TrimEnd(SubSeq(s, 1, Len(s) - 1)) ELSE s

\* A trim that forgets the trailing whitespace.
TrimStartOnly(s) == TrimStart(s)

\* value.trim()
Trim(s) == TrimEnd(TrimStart(s))

\* The token of three backticks (a backtick cannot be written in a TLA+ string).
Fence == "FENCE"

\* The least index i >= from with s[i] = t and, when next # "", s[i+1] = next; 0 if none.
IndexOf(s, t, next, from) ==
    LET hits == {i \in from..Len(s) :
                    /\ s[i] = t
                    /\ next # "" => (i < Len(s) /\ s[i + 1] = next)}
    IN  IF hits = {} THEN 0 ELSE CHOOSE i \in hits : \A j \in hits : i <= j

\* content.replace(/^---[\s\S]*?---\n/, ""): the text must start with "---"; the
\* lazy middle ends at the first later "---" that a newline follows.
StripFrontMatter(content) ==
    LET close == IndexOf(content, "---", "\n", 2)
    IN  IF content # <<>> /\ Head(content) = "---" /\ close # 0
        THEN SubSeq(content, close + 2, Len(content))
        ELSE content

\* A replacement without the g flag: the first match only.
StripFirstCodeBlock(content) ==
    LET open  == IndexOf(content, Fence, "", 1)
        close == IF open = 0 THEN 0 ELSE IndexOf(content, Fence, "", open + 1)
    IN  IF close = 0 THEN content
        ELSE SubSeq(content, 1, open - 1) \o SubSeq(content, close + 1, Len(content))

\* content.replace(/FENCE[\s\S]*?FENCE/g, ""): every match, left to right, each
\* from a fence to the next fence after it.
RECURSIVE StripCodeBlocks(_)
StripCodeBlocks(content) ==
    LET open  == IndexOf(content, Fence, "", 1)
        close == IF open = 0 THEN 0 ELSE IndexOf(content, Fence, "", open + 1)
    IN  IF close = 0 THEN content
        ELSE SubSeq(content, 1, open - 1)
                 \o StripCodeBlocks(SubSeq(content, close + 1, Len(content)))

(***************************************************************************)
(* The settings object and its persistence.                                *)
(***************************************************************************)
Null == <<>>   \* null: falsy, as the empty string is

MergedNotes == <<"M", "e", "r", "g", "e", "d", " ", "N", "o", "t", "e", "s">>

DEFAULT_SETTINGS ==
    [mergePath        |-> MergedNotes,
     stripFrontMatter |-> FALSE,
     stripCodeBlocks  |-> FALSE,
     lastStartDate    |-> Null,
     lastEndDate      |-> Null]

NoData == <<>>   \* loadData() before anything was saved; <<data>> afterwards

\* Object.assign({}, DEFAULT_SETTINGS, await this.loadData()); a saved object
\* holds every field, since saveData writes the whole settings object.
LoadSettings(data) == IF data = NoData THEN DEFAULT_SETTINGS ELSE data[1]

\* this.saveData(this.settings): the host serialises the object when called and
\* completes the writes in the order of the calls.  owner is the index of the
\* mergeDailyNotes call that awaits the write, 0 for a settings tab handler.
SaveSettings(queue, s, owner) == Append(queue, [data |-> s, owner |-> owner])

(***************************************************************************)
(* The vault.                                                              *)
(***************************************************************************)
DailyFolder == <<"Daily">>

\* `${folder}/${currentDate.format(dateFormat)}.md`
DailyNotePath(folder, fmt, d) == folder \o <<"/", FormatDate(d, fmt), ".md">>

\* `${mergePath}/${startDate} to ${endDate}.md`
OutputPath(mergePath, startDate, endDate) ==
    mergePath \o <<"/", FormatDate(startDate, "YYYY-MM-DD"), " to ",
                   FormatDate(endDate, "YYYY-MM-DD"), ".md">>

\* The folder a path lies in: what precedes its last "/".
ParentOf(p) ==
    LET slashes == {i \in 1..Len(p) : p[i] = "/"}
    IN  IF slashes = {} THEN <<>>
        ELSE SubSeq(p, 1, (CHOOSE i \in slashes : \A j \in slashes : j <= i) - 1)

\* outputFolder.children that are markdown files
ChildrenOf(fs, folder) == {p \in DOMAIN fs : ParentOf(p) = folder}

\* A write that puts the text in front of the file's content.
VaultPrepend(fs, path, data) == [fs EXCEPT ![path] = data \o @]

\* A write that replaces the file's content.
VaultOverwrite(fs, path, data) == [fs EXCEPT ![path] = data]

\* vault.append(file, data)
VaultAppend(fs, path, data) == [fs EXCEPT ![path] = @ \o data]

\* vault.create(path, "") of a path that is free
VaultCreate(fs, path) == [q \in DOMAIN fs \cup {path} |-> IF q = path THEN <<>> ELSE fs[q]]

\* The file the vault holds before any merge wrote to the output folder.
OldFile == MergedNotes \o <<"/", "old", ".md">>
OldContent == <<"old", "\n">>

\* The daily note of a date: front matter, a code block and a line of its own.
NoteOf(d) ==
    <<"---", "\n", "t", "\n", "---", "\n", Fence, "x", Fence, "\n", FormatDate(d, "DD.MM.YYYY")>>

\* The vault holding the daily notes of the dates in `days` (content[d] each),
\* and the output folder with OldFile when withOld.
VaultFiles(folder, fmt, days, content, withOld) ==
    LET notes == {DailyNotePath(folder, fmt, d) : d \in days}
        paths == notes \cup (IF withOld THEN {OldFile} ELSE {})
    IN  [p \in paths |->
            IF p \in notes
            THEN content[CHOOSE d \in days : DailyNotePath(folder, fmt, d) = p]
            ELSE OldContent]

(***************************************************************************)
(* Notices.                                                                *)
(***************************************************************************)
NotEnabledNotice == <<"Daily Notes plugin is not enabled.">>
NotFoundNotice == <<"Selected file not found. Please try again.">>
InvalidRangeNotice == <<"Invalid date range. Please try again.">>
NoFolderNotice == <<"Output folder not found or empty.">>
MergedNotice(path) == <<"Daily notes merged and saved to: ">> \o path

(***************************************************************************)
(* The date picker modal.                                                  *)
(***************************************************************************)
NewFile == <<"new">>   \* the value of the "Create New File" option

ClosedModal ==
    [open |-> FALSE, defaultStartDate |-> Null, defaultEndDate |-> Null,
     mergePath |-> <<>>, options |-> {}]

\* Defaults that ignore the remembered dates.
DefaultDatesFresh(s) == <<SubtractDays(Today, 7), Today>>

\* defaultStartDate and defaultEndDate of openDatePickerModal
DefaultDates(s) ==
    <<IF s.lastStartDate # Null THEN s.lastStartDate ELSE SubtractDays(Today, 7),
      IF s.lastEndDate # Null THEN s.lastEndDate ELSE Today>>

\* The options of the file dropdown that onOpen builds.
FileOptions(fs, fds, mergePath) ==
    {NewFile} \cup (IF mergePath \in fds THEN ChildrenOf(fs, mergePath) ELSE {})

\* openDatePickerModal and the modal's onOpen
OpenDatePickerModal ==
    /\ ~modal.open
    /\ modal' = [open             |-> TRUE,
                 defaultStartDate |-> DefaultDates(settings)[1],
                 defaultEndDate   |-> DefaultDates(settings)[2],
                 mergePath        |-> settings.mergePath,
                 options          |-> FileOptions(files, folders, settings.mergePath)]
    /\ notices' = IF settings.mergePath \in folders THEN notices
                  ELSE notices \cup {NoFolderNotice}
    /\ UNCHANGED <<settings, saved, saveQueue, dailyNotes, files, folders, merges>>

\* !startDate || !endDate || startDate > endDate
InvalidRange(startDate, endDate) ==
    startDate = NoDate \/ endDate = NoDate \/ StrGreater(startDate, endDate)

\* A mergeDailyNotes call up to its first await.
NewMerge(startDate, endDate, selectedFile) ==
    [pc           |-> "saving",
     startDate    |-> startDate,
     endDate      |-> endDate,
     selectedFile |-> selectedFile,
     folder       |-> <<>>,
     dateFormat   |-> "",
     mergePath    |-> <<>>,
     outputFile   |-> <<>>,
     currentDate  |-> NoDate,
     pending      |-> <<>>,   \* the text of the vault.append awaited
     appended     |-> <<>>,   \* the texts this call has appended, in order
     notice       |-> <<>>,
     \* what the properties refer to: the chosen file's content when the call was
     \* made, and the earlier calls that had not ended then
     before       |-> IF selectedFile \in DOMAIN files THEN files[selectedFile] ELSE <<>>,
     running      |-> {j \in 1..Len(merges) :
                         merges[j].pc \in {"saving", "mkdir", "creating", "reading",
                                           "appending"}}]

\* The click handler of "Merge Notes", with the values of the three inputs, and
\* for a valid range the start of mergeDailyNotes up to `await this.saveSettings()`.
SubmitClick(startDate, endDate, selectedFile) ==
    /\ modal.open
    /\ selectedFile \in modal.options
    /\ IF InvalidRange(startDate, endDate)
       THEN /\ notices' = notices \cup {InvalidRangeNotice}
            /\ UNCHANGED <<settings, saved, saveQueue, dailyNotes, files, folders,
                           modal, merges>>
       ELSE /\ settings' = [settings EXCEPT !.lastStartDate = startDate,
                                            !.lastEndDate = endDate]
            /\ saveQueue' = SaveSettings(saveQueue, settings', Len(merges) + 1)
            /\ merges' = Append(merges, NewMerge(startDate, endDate, selectedFile))
            /\ modal' = ClosedModal
            /\ UNCHANGED <<saved, dailyNotes, files, folders, notices>>

(***************************************************************************)
(* mergeDailyNotes after its first await.  pc is the await the call is     *)
(* suspended at: "saving" (saveSettings), "mkdir" (vault.createFolder),    *)
(* "creating" (vault.create), "reading" (vault.read), "appending"          *)
(* (vault.append); or how it ended: "done", "returned" (a notice and an    *)
(* early return), "threw" (the promise was rejected).  An operation of the *)
(* vault takes effect in the step that resumes the call.                   *)
(***************************************************************************)
Active == {"saving", "mkdir", "creating", "reading", "appending"}

\* `## ${currentDate.format("YYYY-MM-DD")}\n\n${content}\n\n---\n\n`
Section(d, content) ==
    <<"#", "#", " ", FormatDate(d, "YYYY-MM-DD"), "\n", "\n">> \o content
        \o <<"\n", "\n", "---", "\n", "\n">>

\* The stripping of the settings that are on, front matter first.
ApplyStripping(s, content) ==
    LET c1 == IF s.stripFrontMatter THEN StripFrontMatter(content) ELSE content
    IN  IF s.stripCodeBlocks THEN StripCodeBlocks(c1) ELSE c1

\* The while loop up to its next vault.read: the first date from cur to end,
\* stepping by days, whose daily note exists; NoDate when the loop ends.
RECURSIVE FindNote(_, _, _, _, _)
FindNote(cur, end, folder, fmt, fs) ==
    IF ~IsSameOrBefore(cur, end) THEN NoDate
    ELSE IF DailyNotePath(folder, fmt, cur) \in DOMAIN fs THEN cur
    ELSE FindNote(NextDay(cur), end, folder, fmt, fs)

\* The call m running its loop from cur until it awaits a read or ends.
ContinueLoop(m, cur, fs) ==
    LET d == FindNote(cur, m.endDate, m.folder, m.dateFormat, fs)
    IN  IF d = NoDate
        THEN [m EXCEPT !.pc = "done", !.currentDate = NoDate,
                       !.notice = MergedNotice(m.outputFile)]
        ELSE [m EXCEPT !.pc = "reading", !.currentDate = d]

\* Lines 85-103: after saveSettings, up to `await vault.createFolder(mergePath)`.
AfterSave(m) ==
    IF ~dailyNotes.enabled
    THEN [m EXCEPT !.pc = "returned", !.notice = NotEnabledNotice]
    ELSE [m EXCEPT !.pc = "mkdir",
                   !.folder = dailyNotes.folder,
                   !.dateFormat = dailyNotes.format,
                   !.mergePath = settings.mergePath]

NoticesWith(m) == IF m.notice = <<>> THEN notices ELSE notices \cup {m.notice}

\* The host completes the oldest saveData; the call awaiting it resumes.
SaveDataDone ==
    /\ saveQueue # <<>>
    /\ saved' = <<Head(saveQueue).data>>
    /\ saveQueue' = Tail(saveQueue)
    /\ LET i == Head(saveQueue).owner
       IN  IF i = 0
           THEN UNCHANGED <<merges, notices>>
           ELSE /\ merges' = [merges EXCEPT ![i] = AfterSave(@)]
                /\ notices' = NoticesWith(merges'[i])
    /\ UNCHANGED <<settings, dailyNotes, files, folders, modal>>

\* vault.createFolder settles (a rejection, as for a folder that exists, is
\* swallowed); lines 105-124 follow.
CreateFolderDone(i) ==
    LET m == merges[i]
    IN  /\ m.pc = "mkdir"
        /\ folders' = folders \cup {m.mergePath}
        /\ merges' = [merges EXCEPT ![i] =
              IF m.selectedFile = NewFile
              THEN [m EXCEPT !.pc = "creating"]
              ELSE IF m.selectedFile \notin DOMAIN files
              THEN [m EXCEPT !.pc = "returned", !.notice = NotFoundNotice]
              ELSE ContinueLoop([m EXCEPT !.outputFile = m.selectedFile],
                                m.startDate, files)]
        /\ notices' = NoticesWith(merges'[i])
        /\ UNCHANGED <<settings, saved, saveQueue, dailyNotes, files, modal>>

\* vault.create settles: it rejects when a file of that path exists, and
\* nothing in mergeDailyNotes catches the rejection.
CreateDone(i) ==
    LET m    == merges[i]
        path == OutputPath(m.mergePath, m.startDate, m.endDate)
    IN  /\ m.pc = "creating"
        /\ IF path \in DOMAIN files
           THEN /\ merges' = [merges EXCEPT ![i] = [m EXCEPT !.pc = "threw"]]
                /\ UNCHANGED <<files, notices>>
           ELSE /\ files' = VaultCreate(files, path)
                /\ merges' = [merges EXCEPT ![i] =
                      ContinueLoop([m EXCEPT !.outputFile = path], m.startDate, files')]
                /\ notices' = NoticesWith(merges'[i])
        /\ UNCHANGED <<settings, saved, saveQueue, dailyNotes, folders, modal>>

\* vault.read resolves; the content is stripped as the settings say now and
\* vault.append is called.
ReadDone(i) ==
    LET m       == merges[i]
        content == files[DailyNotePath(m.folder, m.dateFormat, m.currentDate)]
    IN  /\ m.pc = "reading"
        /\ merges' = [merges EXCEPT ![i] =
              [m EXCEPT !.pc = "appending",
                        !.pending = Section(m.currentDate,
                                            ApplyStripping(settings, content))]]
        /\ UNCHANGED <<settings, saved, saveQueue, dailyNotes, files, folders,
                       modal, notices>>

\* vault.append resolves; the loop goes on from the next day.
AppendDone(i) ==
    LET m == merges[i]
    IN  /\ m.pc = "appending"
        /\ files' = VaultAppend(files, m.outputFile, m.pending)
        /\ merges' = [merges EXCEPT ![i] =
              ContinueLoop([m EXCEPT !.appended = Append(@, m.pending),
                                     !.pending = <<>>],
                           NextDay(m.currentDate), files')]
        /\ notices' = NoticesWith(merges'[i])
        /\ UNCHANGED <<settings, saved, saveQueue, dailyNotes, folders, modal>>

(***************************************************************************)
(* The settings tab.                                                       *)
(***************************************************************************)
\* onChange of the Merge Path text field
EditMergePath(value) ==
    /\ Len(saveQueue) < MaxPendingSaves
    /\ settings' = [settings EXCEPT !.mergePath =
                       IF Trim(value) # <<>> THEN Trim(value) ELSE MergedNotes]
    /\ saveQueue' = SaveSettings(saveQueue, settings', 0)
    /\ UNCHANGED <<saved, dailyNotes, files, folders, modal, merges, notices>>

\* onChange of the "Strip out Front Matter" toggle
ToggleStripFrontMatter ==
    /\ Len(saveQueue) < MaxPendingSaves
    /\ settings' = [settings EXCEPT !.stripFrontMatter = ~@]
    /\ saveQueue' = SaveSettings(saveQueue, settings', 0)
    /\ UNCHANGED <<saved, dailyNotes, files, folders, modal, merges, notices>>

\* onChange of the "Strip out Code Blocks" toggle
ToggleStripCodeBlocks ==
    /\ Len(saveQueue) < MaxPendingSaves
    /\ settings' = [settings EXCEPT !.stripCodeBlocks = ~@]
    /\ saveQueue' = SaveSettings(saveQueue, settings', 0)
    /\ UNCHANGED <<saved, dailyNotes, files, folders, modal, merges, notices>>

TextInputs == SeqsUpTo({" ", "a"}, MaxTextLen)

(***************************************************************************)
(* The user deletes the old output file, unless a merge is writing to it.  *)
(***************************************************************************)
DeleteOldFile ==
    /\ OldFile \in DOMAIN files
    /\ \A i \in 1..Len(merges) :
          merges[i].outputFile = OldFile => merges[i].pc \notin Active
    /\ files' = [p \in DOMAIN files \ {OldFile} |-> files[p]]
    /\ UNCHANGED <<settings, saved, saveQueue, dailyNotes, folders, modal, merges,
                   notices>>

(***************************************************************************)
(* Specifications.  Each starts when onload has run: the settings are the  *)
(* defaults overlaid with what an earlier session saved, nothing is open.   *)
(***************************************************************************)
Loaded(data) ==
    /\ saved = data
    /\ settings = LoadSettings(data)
    /\ saveQueue = <<>>
    /\ modal = ClosedModal
    /\ merges = <<>>
    /\ notices = {}

\* What an earlier session can have saved: the toggles, and the dates of its
\* last merge.
SavedToggles ==
    {<<[DEFAULT_SETTINGS EXCEPT !.stripFrontMatter = a, !.stripCodeBlocks = b]>> :
        a, b \in BOOLEAN}

SavedDates ==
    {<<[DEFAULT_SETTINGS EXCEPT !.lastStartDate = a, !.lastEndDate = b]>> :
        a \in {FirstDate}, b \in Dates}

Vault(fmt, days, content, withOld) ==
    /\ files = VaultFiles(DailyFolder, fmt, days, content, withOld)
    /\ folders = {DailyFolder} \cup (IF withOld THEN {MergedNotes} ELSE {})

\* Spec: one merge, of any range of the window, over any set of daily notes,
\* with any combination of the two toggles, into a new or the old file.
Init ==
    /\ \E data \in {NoData} \cup SavedToggles : Loaded(data)
    /\ dailyNotes \in [enabled : BOOLEAN, folder : {DailyFolder}, format : DateFormats]
    /\ \E days \in SUBSET Dates, withOld \in BOOLEAN :
          Vault(dailyNotes.format, days, [d \in days |-> NoteOf(d)], withOld)

Next ==
    \/ merges = <<>> /\ OpenDatePickerModal
    \/ \E s, e \in DateInputs, f \in modal.options : SubmitClick(s, e, f)
    \/ SaveDataDone
    \/ \E i \in 1..Len(merges) : CreateFolderDone(i)
    \/ \E i \in 1..Len(merges) : CreateDone(i)
    \/ \E i \in 1..Len(merges) : ReadDone(i)
    \/ \E i \in 1..Len(merges) : AppendDone(i)
    \/ DeleteOldFile

Spec == Init /\ [][Next]_vars

\* SpecConc: up to MaxMerges merges, submitted while earlier ones still run,
\* over a vault with a daily note on every date but the first.
LastDate == DateOfDay(DayNumber(FirstDate) + NumDays - 1)

ConcRanges == {<<FirstDate, FirstDate>>, <<FirstDate, LastDate>>, <<LastDate, LastDate>>}

InitConc ==
    /\ Loaded(NoData)
    /\ dailyNotes \in [enabled : BOOLEAN, folder : {DailyFolder}, format : {"YYYY-MM-DD"}]
    /\ Vault(dailyNotes.format, Dates \ {FirstDate},
             [d \in Dates \ {FirstDate} |-> NoteOf(d)], TRUE)

NextConc ==
    \/ Len(merges) < MaxMerges /\ OpenDatePickerModal
    \/ \E r \in ConcRanges, f \in modal.options : SubmitClick(r[1], r[2], f)
    \/ SaveDataDone
    \/ \E i \in 1..Len(merges) : CreateFolderDone(i)
    \/ \E i \in 1..Len(merges) : CreateDone(i)
    \/ \E i \in 1..Len(merges) : ReadDone(i)
    \/ \E i \in 1..Len(merges) : AppendDone(i)
    \/ DeleteOldFile

SpecConc == InitConc /\ [][NextConc]_vars

\* SpecSettings: the settings tab alone.
InitSettings ==
    /\ \E data \in {NoData} \cup SavedDates : Loaded(data)
    /\ dailyNotes = [enabled |-> TRUE, folder |-> DailyFolder, format |-> "YYYY-MM-DD"]
    /\ Vault(dailyNotes.format, {}, <<>>, FALSE)

NextSettings ==
    \/ \E value \in TextInputs : EditMergePath(value)
    \/ ToggleStripFrontMatter
    \/ ToggleStripCodeBlocks
    \/ SaveDataDone

SpecSettings == InitSettings /\ [][NextSettings]_vars

\* SpecStrip: one merge of one day into a new file, the day's note being any
\* text of up to MaxContentLen tokens, under any combination of the toggles.
ContentTokens == {"---", "\n", Fence, "a"}

InitStrip ==
    /\ \E data \in SavedToggles : Loaded(data)
    /\ dailyNotes = [enabled |-> TRUE, folder |-> DailyFolder, format |-> "YYYY-MM-DD"]
    /\ \E content \in SeqsUpTo(ContentTokens, MaxContentLen) :
          Vault(dailyNotes.format, {FirstDate}, [d \in {FirstDate} |-> content], FALSE)

NextStrip ==
    \/ merges = <<>> /\ OpenDatePickerModal
    \/ SubmitClick(FirstDate, FirstDate, NewFile)
    \/ SaveDataDone
    \/ \E i \in 1..Len(merges) : CreateFolderDone(i)
    \/ \E i \in 1..Len(merges) : CreateDone(i)
    \/ \E i \in 1..Len(merges) : ReadDone(i)
    \/ \E i \in 1..Len(merges) : AppendDone(i)

SpecStrip == InitStrip /\ [][NextStrip]_vars

(***************************************************************************)
(* What the properties below are stated with.                              *)
(***************************************************************************)
Min(S) == CHOOSE x \in S : \A y \in S : x <= y
Max(S) == CHOOSE x \in S : \A y \in S : y <= x

Ended(m) == m.pc \in {"done", "returned", "threw"}

\* Call i ends in this step.
Ends(i) == i <= Len(merges) /\ ~Ended(merges[i]) /\ Ended(merges'[i])

\* Calls i and j ran at the same time: the later was made before the earlier ended.
Overlap(i, j) == IF j < i THEN j \in merges[i].running ELSE i \in merges[j].running

\* The dates of the window, in calendar order.
DatesInOrder == [i \in 1..NumDays |-> DateOfDay(DayNumber(FirstDate) + i - 1)]

NotePathOf(d) ==
    dailyNotes.folder \o <<"/", FormatDate(d, dailyNotes.format), ".md">>

\* The calendar dates from start to end, both included, that have a daily note.
NotedDates(m) ==
    LET lo == DayNumber(m.startDate)
        hi == DayNumber(m.endDate)
    IN  SelectSeq(DatesInOrder,
                  LAMBDA d : /\ lo <= DayNumber(d)
                             /\ DayNumber(d) <= hi
                             /\ NotePathOf(d) \in DOMAIN files)

IsoDate(d) == ToString(d[1]) \o "-" \o Pad2(d[2]) \o "-" \o Pad2(d[3])

HeaderOf(d) == <<"#", "#", " ", IsoDate(d), "\n", "\n">>
Separator == <<"\n", "\n", "---", "\n", "\n">>

\* The note text inside a section: between its heading and its separator.
BodyOf(section) == SubSeq(section, 7, Len(section) - 5)

\* The sections occur in content from index `from` on, in order, none overlapping.
RECURSIVE InOrderFrom(_, _, _)
InOrderFrom(content, from, sections) ==
    IF sections = <<>> THEN TRUE
    ELSE LET sec    == Head(sections)
             starts == {k \in from..(Len(content) - Len(sec) + 1) :
                           SubSeq(content, k, k + Len(sec) - 1) = sec}
         IN  starts # {} /\ InOrderFrom(content, Min(starts) + Len(sec), Tail(sections))

\* content is the texts of the logs, each log in its order, merged in some way.
RECURSIVE Interleaved(_, _)
Interleaved(content, logs) ==
    IF \A i \in DOMAIN logs : logs[i] = <<>> THEN content = <<>>
    ELSE \E i \in DOMAIN logs :
            /\ logs[i] # <<>>
            /\ IsPrefix(Head(logs[i]), content)
            /\ Interleaved(SubSeq(content, Len(Head(logs[i])) + 1, Len(content)),
                           [logs EXCEPT ![i] = Tail(@)])

\* content is the texts of the calls of I, one whole call after the other.
RECURSIVE InBlocks(_, _)
InBlocks(content, I) ==
    IF I = {} THEN content = <<>>
    ELSE \E i \in I :
            LET block == Flatten(merges[i].appended)
            IN  /\ IsPrefix(block, content)
                /\ InBlocks(SubSeq(content, Len(block) + 1, Len(content)), I \ {i})

\* The calls that write to file p, and what p held before any of them.
WritersOf(p) == {i \in 1..Len(merges) : merges[i].outputFile = p}
BaseOf(p) == IF p = OldFile THEN OldContent ELSE <<>>
AfterBase(p) == SubSeq(files[p], Len(BaseOf(p)) + 1, Len(files[p]))

C7_ClickStartsOnlyValidRanges ==
    /\ [](\A i \in 1..Len(merges) :
             /\ merges[i].startDate # NoDate
             /\ merges[i].endDate # NoDate
             /\ DayNumber(merges[i].startDate) <= DayNumber(merges[i].endDate))
    /\ [][\A s, e \in DateInputs, f \in modal.options :
             SubmitClick(s, e, f) =>
                IF s = NoDate \/ e = NoDate \/ DayNumber(s) > DayNumber(e)
                THEN /\ InvalidRangeNotice \in notices'
                     /\ modal' = modal /\ modal'.open
                     /\ merges' = merges
                     /\ UNCHANGED <<settings, saved, saveQueue, files, folders>>
                ELSE /\ Len(merges') = Len(merges) + 1
                     /\ SubSeq(merges', 1, Len(merges)) = merges
                     /\ Last(merges').startDate = s
                     /\ Last(merges').endDate = e
                     /\ Last(merges').selectedFile = f
                     /\ ~modal'.open]_vars

\* A refused click was followed by an accepted one with equal dates.
C7_Witness ==
    /\ InvalidRangeNotice \in notices
    /\ ~modal.open
    /\ \E i \in 1..Len(merges) : merges[i].startDate = merges[i].endDate

(***************************************************************************)
(* Front matter and fenced code blocks, as the claims describe them.       *)
(***************************************************************************)
\* The closing line of the front matter the text begins with (0 when it begins
\* with none): the text opens with a line "---", and the next line "---" after
\* it closes the block.
FrontMatterClose(c) ==
    LET closes == {j \in 3..Len(c) :
                      /\ c[j] = "---" /\ c[j - 1] = "\n"
                      /\ (j = Len(c) \/ c[j + 1] = "\n")}
    IN  IF Len(c) >= 2 /\ c[1] = "---" /\ c[2] = "\n" /\ closes # {}
        THEN Min(closes) ELSE 0

\* The text without its front matter block (the closing line's newline included).
WithoutFrontMatter(c) ==
    IF FrontMatterClose(c) = 0 THEN c
    ELSE SubSeq(c, FrontMatterClose(c) + 2, Len(c))

FencesBefore(c, k) == Cardinality({j \in 1..(k - 1) : c[j] = Fence})

\* Token k lies outside every fenced block: an opening fence pairs with the next
\* fence after it, so a token is inside a block when it is a paired fence or
\* follows an odd number of fences the last of which is paired.
OutsideBlocks(c, k) ==
    LET before == FencesBefore(c, k)
        total  == FencesBefore(c, Len(c) + 1)
    IN  IF c[k] = Fence
        THEN before % 2 = 0 /\ before = total - 1
        ELSE before % 2 = 0 \/ before = total

\* The text without its fenced blocks.
RECURSIVE KeepOutside(_, _)
KeepOutside(c, k) ==
    IF k > Len(c) THEN <<>>
    ELSE (IF OutsideBlocks(c, k) THEN <<c[k]>> ELSE <<>>) \o KeepOutside(c, k + 1)

WithoutBlocks(c) == KeepOutside(c, 1)

\* In SpecStrip: the note of the merged day, and what the merge appended for it.
StripNote == files[NotePathOf(FirstDate)]
Merged(i) == BodyOf(merges[i].appended[1])

(***************************************************************************)
(* C4.  With "Strip out Front Matter" on (and code blocks kept), what is   *)
(* merged of a note is the note without its front matter block: the block  *)
(* from the opening "---" line at the very top to the next "---" line.  A  *)
(* note that does not begin with such a block is merged unchanged, and     *)
(* "---" lines further down are kept.                                      *)
(***************************************************************************)
C4_FrontMatterRemoved ==
    \A i \in 1..Len(merges) :
        (merges[i].pc = "done" /\ settings.stripFrontMatter /\ ~settings.stripCodeBlocks)
            => Merged(i) = WithoutFrontMatter(StripNote)

(***************************************************************************)
(* C5.  With "Strip out Code Blocks" on (and front matter kept), what is   *)
(* merged of a note is the note without its fenced blocks, every one of    *)
(* them, the text outside them in its order; with both strip settings on   *)
(* no whole block is left either; with both off the note is merged as is.  *)
(***************************************************************************)
C5_CodeBlocksRemoved ==
    \A i \in 1..Len(merges) :
        merges[i].pc = "done" =>
            /\ (settings.stripCodeBlocks /\ ~settings.stripFrontMatter)
                  => Merged(i) = WithoutBlocks(StripNote)
            /\ settings.stripCodeBlocks
                  => FencesBefore(Merged(i), Len(Merged(i)) + 1) <= 1
            /\ (~settings.stripCodeBlocks /\ ~settings.stripFrontMatter)
                  => Merged(i) = StripNote

\* A note of two fenced blocks and text between them was merged without them.
C5_Witness ==
    \E i \in 1..Len(merges) :
        /\ merges[i].pc = "done"
        /\ settings.stripCodeBlocks /\ ~settings.stripFrontMatter
        /\ StripNote = <<Fence, Fence, "a", Fence, Fence>>
        /\ Merged(i) = <<"a">>

(***************************************************************************)
(* C10.  Under edits in the settings tab, mergePath is never empty and     *)
(* never starts or ends with whitespace: an edit to an empty or blank      *)
(* value sets it to "Merged Notes", any other edit to the value without    *)
(* its leading and trailing whitespace.  An edit changes no other field of *)
(* the settings (nor does a toggle change any field but its own), and      *)
(* every edit is saved: the data saved last is the settings as they are.   *)
(***************************************************************************)
\* The value between its first and its last character that is not a space.
Unpadded(v) ==
    LET solid == {k \in 1..Len(v) : v[k] # " "}
    IN  IF solid = {} THEN <<>> ELSE SubSeq(v, Min(solid), Max(solid))

OtherFieldsKept(field) ==
    \A g \in (DOMAIN settings) \ {field} : settings'[g] = settings[g]

C10_MergePathNeverBlank ==
    /\ [](/\ settings.mergePath # <<>>
          /\ Head(settings.mergePath) # " "
          /\ Last(settings.mergePath) # " "
          /\ IF saveQueue = <<>>
             THEN saved = <<settings>> \/ (saved = NoData /\ settings = DEFAULT_SETTINGS)
             ELSE Last(saveQueue).data = settings)
    /\ [][/\ \A v \in TextInputs :
                EditMergePath(v) =>
                   /\ settings'.mergePath
                         = (IF Unpadded(v) = <<>> THEN MergedNotes ELSE Unpadded(v))
                   /\ OtherFieldsKept("mergePath")
                   /\ Last(saveQueue').data = settings'
          /\ ToggleStripFrontMatter =>
                /\ settings'.stripFrontMatter = ~settings.stripFrontMatter
                /\ OtherFieldsKept("stripFrontMatter")
                /\ Last(saveQueue').data = settings'
          /\ ToggleStripCodeBlocks =>
                /\ settings'.stripCodeBlocks = ~settings.stripCodeBlocks
                /\ OtherFieldsKept("stripCodeBlocks")
                /\ Last(saveQueue').data = settings'
          /\ settings' # settings => saveQueue' = Append(saveQueue, [data |-> settings', owner |-> 0])
         ]_vars

\* A padded path was typed, a toggle flipped, the dates of an earlier session
\* kept, and all of it saved.
C10_Witness ==
    /\ settings.mergePath = <<"a">>
    /\ settings.stripCodeBlocks
    /\ settings.lastEndDate # Null
    /\ saveQueue = <<>>
    /\ saved = <<settings>>

(***************************************************************************)
(* C9.  Once a merge was submitted, lastStartDate and lastEndDate are the  *)
(* dates of the call made last, and they are saved as soon as that call is *)
(* past its saveSettings, also when it then returns early because Daily    *)
(* Notes is disabled or the selected file is gone.  An open date picker    *)
(* shows these two dates as defaults; it shows today minus seven days and  *)
(* today only while no merge was ever submitted.                           *)
(***************************************************************************)
C9_LastRangeRemembered ==
    /\ merges # <<>> =>
          /\ settings.lastStartDate = Last(merges).startDate
          /\ settings.lastEndDate = Last(merges).endDate
          /\ Last(merges).pc # "saving" =>
                /\ saved # NoData
                /\ saved[1].lastStartDate = Last(merges).startDate
                /\ saved[1].lastEndDate = Last(merges).endDate
    /\ modal.open =>
          IF merges = <<>>
          THEN /\ DayNumber(modal.defaultStartDate) = DayNumber(Today) - 7
               /\ modal.defaultEndDate = Today
          ELSE /\ modal.defaultStartDate = Last(merges).startDate
               /\ modal.defaultEndDate = Last(merges).endDate

\* The date picker is open again after a merge that found its file gone.
C9_Witness ==
    /\ modal.open
    /\ merges # <<>>
    /\ Last(merges).pc = "returned"
    /\ Last(merges).notice = NotFoundNotice
    /\ Last(merges).startDate # Last(merges).endDate
    /\ saved = <<settings>>

(***************************************************************************)
(* C6.  A merge that ends without having merged ends by a notice and a     *)
(* normal return, with nothing appended: when Daily Notes is disabled,     *)
(* when the selected file is not found, and when the new file cannot be    *)
(* created.                                                                *)
(***************************************************************************)
C6_FailuresEndWithNotice ==
    \A i \in 1..Len(merges) :
        (Ended(merges[i]) /\ merges[i].pc # "done") =>
            /\ merges[i].pc = "returned"
            /\ merges[i].notice # <<>>
            /\ merges[i].notice \in notices
            /\ merges[i].appended = <<>>

(***************************************************************************)
(* C8.  As claimed: in an output file the sections of each merge form one  *)
(* block, the blocks of the merges following one another.                  *)
(***************************************************************************)
C8_SectionsInBlocks ==
    \A p \in DOMAIN files :
        WritersOf(p) # {} => InBlocks(AfterBase(p), WritersOf(p))

(***************************************************************************)
(* C8, amended.  In an output file nothing but appended sections follows   *)
(* what the file held at first, no section is lost, and the sections of    *)
(* each merge stand in ascending date order; the sections of two merges    *)
(* that ran at the same time may alternate.                                *)
(***************************************************************************)
C8_SectionsInterleaved ==
    /\ \A p \in DOMAIN files :
          WritersOf(p) # {} =>
             /\ IsPrefix(BaseOf(p), files[p])
             /\ Interleaved(AfterBase(p), [i \in WritersOf(p) |-> merges[i].appended])
    /\ \A i \in 1..Len(merges) :
          LET ds == NotedDates(merges[i])
          IN  /\ Len(merges[i].appended) <= Len(ds)
              /\ \A k \in 1..Len(merges[i].appended) :
                    IsPrefix(HeaderOf(ds[k]), merges[i].appended[k])

\* Two merges into the old file have ended, their sections alternating.
C8_Witness ==
    /\ OldFile \in DOMAIN files
    /\ Cardinality(WritersOf(OldFile)) = 2
    /\ \A i \in WritersOf(OldFile) : merges[i].pc = "done" /\ Len(merges[i].appended) = 2
    /\ ~InBlocks(AfterBase(OldFile), WritersOf(OldFile))

(***************************************************************************)
(* C2 and C3 speak of the file as the merge leaves it: of the step in      *)
(* which the call ends.                                                    *)
(***************************************************************************)
\* Call i, made for an existing file, completes in this step, the file still there.
CompletesInto(i) ==
    /\ Ends(i)
    /\ merges'[i].pc = "done"
    /\ merges'[i].selectedFile # NewFile
    /\ merges'[i].outputFile \in DOMAIN files'

\* No other call that writes to the file of call i ran while call i did.
Undisturbed(i) ==
    \A j \in 1..Len(merges') :
        (j # i /\ merges'[j].outputFile = merges'[i].outputFile) => ~Overlap(i, j)'

\* No step changes a file except by appending the awaited text of a call to
\* the file of that call, which lies in the merge folder; a step that changes
\* no file's content may add a file, and only the user's deletion of the old
\* file removes one; so the daily notes are never written.
OnlyAppends ==
    \/ files' = files
    \/ /\ DOMAIN files' = DOMAIN files \ {OldFile}
       /\ \A q \in DOMAIN files' : files'[q] = files[q]
    \/ /\ DOMAIN files \subseteq DOMAIN files'
       /\ \A q \in DOMAIN files : files'[q] = files[q]
    \/ \E i \in 1..Len(merges) :
          LET p == merges[i].outputFile
          IN  /\ merges[i].pc = "appending"
              /\ p \in DOMAIN files
              /\ ParentOf(p) = settings.mergePath
              /\ ParentOf(p) # dailyNotes.folder
              /\ files' = [files EXCEPT ![p] = @ \o merges[i].pending]

(***************************************************************************)
(* C2.  As claimed: when a merge into an existing file completes, the file *)
(* is what it was when the merge was started followed by the sections of   *)
(* the merge; and merging only appends to that file.                       *)
(***************************************************************************)
C2_FileIsBeforePlusSections ==
    [][/\ OnlyAppends
       /\ \A i \in 1..Len(merges) :
             CompletesInto(i) =>
                files'[merges'[i].outputFile]
                   = merges'[i].before \o Flatten(merges'[i].appended)]_vars

(***************************************************************************)
(* C2, amended.  Merging into an existing file only appends to that file   *)
(* and modifies no other file.  When the merge completes, what the file    *)
(* held when the merge was started is an unchanged prefix, and the         *)
(* sections of the merge follow it in their order; they are all that       *)
(* follows it unless another merge wrote to the same file at the same time.*)
(***************************************************************************)
C2_OnlyAppendsToTarget ==
    [][/\ OnlyAppends
       /\ \A i \in 1..Len(merges) :
             CompletesInto(i) =>
                LET m == merges'[i]
                IN  /\ IsPrefix(m.before, files'[m.outputFile])
                    /\ InOrderFrom(files'[m.outputFile], Len(m.before) + 1, m.appended)
                    /\ Undisturbed(i) =>
                          files'[m.outputFile] = m.before \o Flatten(m.appended)]_vars

\* Two merges into the old file, the second started after the first had
\* written a section and before it ended, have both completed.
C2_Witness ==
    /\ OldFile \in DOMAIN files
    /\ Len(merges) = 2
    /\ \A i \in 1..2 : /\ merges[i].pc = "done"
                       /\ merges[i].outputFile = OldFile
                       /\ Len(merges[i].appended) = 2
    /\ merges[2].running = {1}
    /\ merges[2].before = OldContent \o merges[1].appended[1]
    /\ files[OldFile] # merges[2].before \o Flatten(merges[2].appended)

\* The path the claim names for the new file of a call.
NewPathOf(m) ==
    settings.mergePath \o <<"/", IsoDate(m.startDate), " to ", IsoDate(m.endDate), ".md">>

(***************************************************************************)
(* C3.  When a merge into a new file ends (unless it returned because the  *)
(* Daily Notes plugin is off), the file                                    *)
(* "<mergePath>/<startDate> to <endDate>.md" exists and holds exactly the  *)
(* sections of this merge, nothing when no date of the range has a note.   *)
(***************************************************************************)
C3_NewFileHoldsExactlyTheMerge ==
    [][\A i \in 1..Len(merges) :
          (Ends(i) /\ merges'[i].selectedFile = NewFile /\ merges'[i].pc # "returned") =>
              /\ NewPathOf(merges'[i]) \in DOMAIN files'
              /\ files'[NewPathOf(merges'[i])] = Flatten(merges'[i].appended)]_vars

====
